---- MODULE Spec2Model ----
(***************************************************************************)
(* Jacobian-coordinate group law, batch normalisation and point codec of   *)
(* bls12_381_G1 (libff), over a scaled-down base field.                     *)
(*                                                                         *)
(* The base field bls12_381_Fq is Fp_model<n, modulus>; the 381-bit        *)
(* modulus is replaced by a small prime q with q = 3 (mod 4) and            *)
(* q = 1 (mod 3), as for the BLS12-381 base field (so s = 1 in             *)
(* q - 1 = 2^s * t, and the curve y^2 = x^3 + 4 is ordinary, a = 0).        *)
(***************************************************************************)
EXTENDS Integers, Sequences, FiniteSets, TLC

(***************************************************************************)
(* Bounds of the model.                                                    *)
(***************************************************************************)
\* index into Moduli: which scaled-down base field is used
FieldIdx == 1
\* operand representatives are drawn with Z in 1..MaxZ (and Z = 0)
MaxZ == 2
\* operator+ calls counted per run of the reachability machine
MaxAddCount == 2
\* longest vector handed to batch_to_special_all_non_zeros
MaxVec == 2
\* threads calling operator+ at the same time
NumThreads == 2

\* admissible scaled-down moduli (q = 7 mod 12) and a generator for each
Moduli == <<19, 31, 43>>
Generators == <<[X |-> 1, Y |-> 9, Z |-> 1],
                [X |-> 1, Y |-> 6, Z |-> 1],
                [X |-> 4, Y |-> 5, Z |-> 1]>>

(***************************************************************************)
(* Fp_model: the prime field.                                              *)
(***************************************************************************)
modulus == Moduli[FieldIdx]

Fq == 0 .. (modulus - 1)

Fq_zero == 0

Fq_one == 1

Fq_add(a, b) == (a + b) % modulus

Fq_sub(a, b) == (a - b + modulus) % modulus

Fq_mul(a, b) == (a * b) % modulus

Fq_neg(a) == (modulus - a) % modulus

squared(a) == (a * a) % modulus

\* a^(-1) for a # 0; the behaviour on 0 is undefined and is modelled where
\* the call is made
InverseTable == [a \in 1 .. (modulus - 1) |->
                   CHOOSE x \in 1 .. (modulus - 1) : (a * x) % modulus = 1]

inverse(a) == InverseTable[a]

\* the square roots of a; empty when a is no quadratic residue
Roots(a) == {x \in Fq : squared(x) = a}

\* as_bigint().data[0] & 1: parity of the standard representative
Lsb(a) == a % 2

\* the curve coefficient b of y^2 = x^3 + b
bls12_381_coeff_b == 4

(***************************************************************************)
(* bls12_381_G1: a point is a triple (X, Y, Z) in Jacobian coordinates.    *)
(***************************************************************************)
G1(x, y, z) == [X |-> x, Y |-> y, Z |-> z]

G1_zero == G1(Fq_zero, Fq_one, Fq_zero)

G1_one == Generators[FieldIdx]

is_zero(p) == p.Z = Fq_zero

is_special(p) == is_zero(p) \/ p.Z = Fq_one

\* to_affine_coordinates scaling Y by Z^-2 as it does X
to_affine_Y_by_Z2(p) ==
    IF is_zero(p)
    THEN G1(Fq_zero, Fq_one, Fq_zero)
    ELSE LET Z_inv  == inverse(p.Z)
             Z2_inv == squared(Z_inv)
         IN  G1(Fq_mul(p.X, Z2_inv), Fq_mul(p.Y, Z2_inv), Fq_one)

to_affine_coordinates(p) ==
    IF is_zero(p)
    THEN G1(Fq_zero, Fq_one, Fq_zero)
    ELSE LET Z_inv  == inverse(p.Z)
             Z2_inv == squared(Z_inv)
             Z3_inv == Fq_mul(Z2_inv, Z_inv)
         IN  G1(Fq_mul(p.X, Z2_inv), Fq_mul(p.Y, Z3_inv), Fq_one)

\* the calls of Fp_model::inverse that to_affine_coordinates makes
to_affine_inversions(p) == IF is_zero(p) THEN 0 ELSE 1

to_special(p) == to_affine_coordinates(p)

\* operator== comparing Y against the squares of the Z's instead of the cubes
Eq_Y_by_Z2(p, other) ==
    IF is_zero(p) THEN is_zero(other)
    ELSE IF is_zero(other) THEN FALSE
    ELSE LET Z1_squared == squared(p.Z)
             Z2_squared == squared(other.Z)
         IN  ~ (\/ Fq_mul(p.X, Z2_squared) # Fq_mul(other.X, Z1_squared)
                \/ Fq_mul(p.Y, Z2_squared) # Fq_mul(other.Y, Z1_squared))

\* operator==
Eq(p, other) ==
    IF is_zero(p) THEN is_zero(other)
    ELSE IF is_zero(other) THEN FALSE
    ELSE LET Z1_squared == squared(p.Z)
             Z2_squared == squared(other.Z)
             Z1_cubed   == Fq_mul(p.Z, Z1_squared)
             Z2_cubed   == Fq_mul(other.Z, Z2_squared)
         IN  ~ (\/ Fq_mul(p.X, Z2_squared) # Fq_mul(other.X, Z1_squared)
                \/ Fq_mul(p.Y, Z2_cubed) # Fq_mul(other.Y, Z1_cubed))

\* operator!=
Neq(p, other) == ~ Eq(p, other)

\* dbl with E = 2 * A instead of 3 * A
dbl_E_twice_A(p) ==
    IF is_zero(p) THEN p
    ELSE LET A  == squared(p.X)
             B  == squared(p.Y)
             C  == squared(B)
             D0 == Fq_sub(Fq_sub(squared(Fq_add(p.X, B)), A), C)
             D  == Fq_add(D0, D0)
             E  == Fq_add(A, A)
             F  == squared(E)
             X3 == Fq_sub(F, Fq_add(D, D))
             C2 == Fq_add(C, C)
             C4 == Fq_add(C2, C2)
             eightC == Fq_add(C4, C4)
             Y3 == Fq_sub(Fq_mul(E, Fq_sub(D, X3)), eightC)
             Y1Z1 == Fq_mul(p.Y, p.Z)
             Z3 == Fq_add(Y1Z1, Y1Z1)
         IN  G1(X3, Y3, Z3)

dbl(p) ==
    IF is_zero(p) THEN p
    ELSE LET A  == squared(p.X)
             B  == squared(p.Y)
             C  == squared(B)
             D0 == Fq_sub(Fq_sub(squared(Fq_add(p.X, B)), A), C)
             D  == Fq_add(D0, D0)
             E  == Fq_add(Fq_add(A, A), A)
             F  == squared(E)
             X3 == Fq_sub(F, Fq_add(D, D))
             C2 == Fq_add(C, C)
             C4 == Fq_add(C2, C2)
             eightC == Fq_add(C4, C4)
             Y3 == Fq_sub(Fq_mul(E, Fq_sub(D, X3)), eightC)
             Y1Z1 == Fq_mul(p.Y, p.Z)
             Z3 == Fq_add(Y1Z1, Y1Z1)
         IN  G1(X3, Y3, Z3)

\* the general addition formula (add-2007-bl), after the special cases
add_general(p, other) ==
    LET Z1Z1 == squared(p.Z)
        Z2Z2 == squared(other.Z)
        U1 == Fq_mul(p.X, Z2Z2)
        U2 == Fq_mul(other.X, Z1Z1)
        S1 == Fq_mul(p.Y, Fq_mul(other.Z, Z2Z2))
        S2 == Fq_mul(other.Y, Fq_mul(p.Z, Z1Z1))
        H  == Fq_sub(U2, U1)
        I  == squared(Fq_add(H, H))
        J  == Fq_mul(H, I)
        S2_minus_S1 == Fq_sub(S2, S1)
        r  == Fq_add(S2_minus_S1, S2_minus_S1)
        V  == Fq_mul(U1, I)
        X3 == Fq_sub(Fq_sub(squared(r), J), Fq_add(V, V))
        S1_J == Fq_mul(S1, J)
        Y3 == Fq_sub(Fq_mul(r, Fq_sub(V, X3)), Fq_add(S1_J, S1_J))
        Z3 == Fq_mul(Fq_sub(Fq_sub(squared(Fq_add(p.Z, other.Z)), Z1Z1), Z2Z2), H)
    IN  G1(X3, Y3, Z3)

\* operator+ without the doubling-case dispatch
add_no_dbl_case(p, other) ==
    IF is_zero(p) THEN other
    ELSE IF is_zero(other) THEN p
    ELSE add_general(p, other)

\* operator+ (the value it returns; the call counter is kept by the actions)
add(p, other) ==
    IF is_zero(p) THEN other
    ELSE IF is_zero(other) THEN p
    ELSE LET Z1Z1 == squared(p.Z)
             Z2Z2 == squared(other.Z)
             U1 == Fq_mul(p.X, Z2Z2)
             U2 == Fq_mul(other.X, Z1Z1)
             S1 == Fq_mul(p.Y, Fq_mul(other.Z, Z2Z2))
             S2 == Fq_mul(other.Y, Fq_mul(p.Z, Z1Z1))
         IN  IF U1 = U2 /\ S1 = S2
             THEN dbl(p)
             ELSE add_general(p, other)

\* operator-() keeping the sign of Y
neg_keep_Y(p) == G1(p.X, p.Y, p.Z)

\* operator-()
neg(p) == G1(p.X, Fq_neg(p.Y), p.Z)

\* mixed_add with r = S2 - Y1 not doubled
mixed_add_r_single(p, other) ==
    IF is_zero(p) THEN other
    ELSE IF is_zero(other) THEN p
    ELSE LET Z1Z1 == squared(p.Z)
             U2 == Fq_mul(other.X, Z1Z1)
             S2 == Fq_mul(other.Y, Fq_mul(p.Z, Z1Z1))
         IN  IF p.X = U2 /\ p.Y = S2
             THEN dbl(p)
             ELSE LET H  == Fq_sub(U2, p.X)
                      HH == squared(H)
                      I0 == Fq_add(HH, HH)
                      I  == Fq_add(I0, I0)
                      J  == Fq_mul(H, I)
                      r  == Fq_sub(S2, p.Y)
                      V  == Fq_mul(p.X, I)
                      X3 == Fq_sub(Fq_sub(Fq_sub(squared(r), J), V), V)
                      Y3a == Fq_mul(p.Y, J)
                      Y3 == Fq_sub(Fq_sub(Fq_mul(r, Fq_sub(V, X3)), Y3a), Y3a)
                      Z3 == Fq_sub(Fq_sub(squared(Fq_add(p.Z, H)), Z1Z1), HH)
                  IN  G1(X3, Y3, Z3)

\* mixed_add (the value it returns when the assertion, if compiled in, passes)
mixed_add(p, other) ==
    IF is_zero(p) THEN other
    ELSE IF is_zero(other) THEN p
    ELSE LET Z1Z1 == squared(p.Z)
             U2 == Fq_mul(other.X, Z1Z1)
             S2 == Fq_mul(other.Y, Fq_mul(p.Z, Z1Z1))
         IN  IF p.X = U2 /\ p.Y = S2
             THEN dbl(p)
             ELSE LET H  == Fq_sub(U2, p.X)
                      HH == squared(H)
                      I0 == Fq_add(HH, HH)
                      I  == Fq_add(I0, I0)
                      J  == Fq_mul(H, I)
                      r0 == Fq_sub(S2, p.Y)
                      r  == Fq_add(r0, r0)
                      V  == Fq_mul(p.X, I)
                      X3 == Fq_sub(Fq_sub(Fq_sub(squared(r), J), V), V)
                      Y3a == Fq_mul(p.Y, J)
                      Y3 == Fq_sub(Fq_sub(Fq_mul(r, Fq_sub(V, X3)), Y3a), Y3a)
                      Z3 == Fq_sub(Fq_sub(squared(Fq_add(p.Z, H)), Z1Z1), HH)
                  IN  G1(X3, Y3, Z3)

is_well_formed(p) ==
    IF is_zero(p) THEN TRUE
    ELSE LET X2 == squared(p.X)
             Y2 == squared(p.Y)
             Z2 == squared(p.Z)
             X3 == Fq_mul(p.X, X2)
             Z3 == Fq_mul(p.Z, Z2)
             Z6 == squared(Z3)
         IN  Y2 = Fq_add(X3, Fq_mul(bls12_381_coeff_b, Z6))

(***************************************************************************)
(* Operand sets.                                                           *)
(***************************************************************************)
\* the finite points of the curve, normalized
AffinePoints == {pt \in {G1(x, y, Fq_one) : x \in Fq, y \in Fq} : is_well_formed(pt)}

\* the representative (c^2 X, c^3 Y, c Z) of the same logical point
Scale(p, c) ==
    G1(Fq_mul(p.X, squared(c)), Fq_mul(p.Y, Fq_mul(c, squared(c))), Fq_mul(p.Z, c))

\* two representatives of Infinity: the canonical one and another one
Infinities == {G1_zero, G1(Fq_one, Fq_one, Fq_zero)}

\* well-formed operands: every finite point with Z in 1..MaxZ, and Infinity
Operands == {Scale(a, c) : a \in AffinePoints, c \in 1 .. MaxZ} \cup Infinities

(***************************************************************************)
(* State.                                                                  *)
(***************************************************************************)
VARIABLES
    pc,                   \* the operation that has run (or is running)
    P, Q, R,              \* operand points
    ret,                  \* the point the operation returned
    status,               \* "ok", or how the call ended otherwise
    DEBUG,                \* whether the build defines DEBUG
    add_ec_point_count,   \* static long int _add_ec_point_count
    stream,               \* the characters written and not yet read
    src,                  \* who wrote the stream
    g,                    \* the point read_* fills in
    sqrt_iter,            \* parity of the iterations of sqrt's loop
    vec0,                 \* the caller's copy of the vector before the batch call
    vec,                  \* the vector batch_to_special_all_non_zeros works on
    inv_cnt,              \* Fp_model::inv_cnt, counted from the start of the operation
    eq,                   \* what the calls of operator== returned
    tpc,                  \* per thread: where it is in operator+
    treg,                 \* per thread: the value of _add_ec_point_count it loaded
    tcalls,               \* per thread: the calls of operator+ it has completed
    tret                  \* per thread: the point its last call returned

groupVars == <<P, Q, R, ret, DEBUG, add_ec_point_count>>

codecVars == <<stream, src, g, sqrt_iter>>

batchVars == <<vec0, vec, inv_cnt>>

cmpVars == <<eq>>

threadVars == <<tpc, treg, tcalls, tret>>

vars == <<pc, status, groupVars, codecVars, batchVars, cmpVars, threadVars>>

\* no stream, no vector: the state of the codec and of the batch call when
\* only the group law is exercised
CodecIdle ==
    /\ stream = <<>>
    /\ src = "none"
    /\ g = G1_zero
    /\ sqrt_iter = 0

BatchIdle ==
    /\ vec0 = <<>>
    /\ vec = <<>>
    /\ inv_cnt = 0

\* no comparison made, no thread started
CmpIdle == eq = <<>>

ThreadsIdle ==
    /\ tpc = <<>>
    /\ treg = <<>>
    /\ tcalls = <<>>
    /\ tret = <<>>

(***************************************************************************)
(* Group-law calls on arbitrary well-formed operands.                      *)
(***************************************************************************)
InitAlg ==
    /\ pc = "start"
    /\ P \in Operands
    /\ Q \in Operands
    /\ R = G1_zero
    /\ ret = G1_zero
    /\ status = "ok"
    /\ DEBUG \in BOOLEAN
    /\ add_ec_point_count = 0
    /\ CmpIdle
    /\ ThreadsIdle
    /\ CodecIdle
    /\ BatchIdle

\* ret = P + Q
Add ==
    /\ pc = "start"
    /\ pc' = "add"
    /\ ret' = add(P, Q)
    /\ add_ec_point_count' = add_ec_point_count + 1
    /\ inv_cnt' = 0
    /\ UNCHANGED <<P, Q, R, status, DEBUG, codecVars, vec0, vec, cmpVars, threadVars>>

\* ret = P + (-P)
AddNeg ==
    /\ pc = "start"
    /\ pc' = "add_neg"
    /\ ret' = add(P, neg(P))
    /\ add_ec_point_count' = add_ec_point_count + 1
    /\ inv_cnt' = 0
    /\ UNCHANGED <<P, Q, R, status, DEBUG, codecVars, vec0, vec, cmpVars, threadVars>>

\* ret = P.mixed_add(Q); with DEBUG the assertion aborts the process when Q
\* is not special, without DEBUG the formula is evaluated whatever Q is
MixedAdd ==
    /\ pc = "start"
    /\ pc' = "mixed_add"
    /\ IF DEBUG /\ ~ is_special(Q)
       THEN /\ status' = "abort"
            /\ UNCHANGED ret
       ELSE /\ status' = "ok"
            /\ ret' = mixed_add(P, Q)
    /\ inv_cnt' = 0
    /\ UNCHANGED <<P, Q, R, DEBUG, add_ec_point_count, codecVars, vec0, vec, cmpVars, threadVars>>

\* ret = P; ret.to_affine_coordinates()
ToAffine ==
    /\ pc = "start"
    /\ pc' = "to_affine_coordinates"
    /\ ret' = to_affine_coordinates(P)
    /\ inv_cnt' = to_affine_inversions(P)
    /\ UNCHANGED <<P, Q, R, status, DEBUG, add_ec_point_count, codecVars, vec0, vec, cmpVars, threadVars>>

\* ret = P; ret.to_special()
ToSpecial ==
    /\ pc = "start"
    /\ pc' = "to_special"
    /\ ret' = to_special(P)
    /\ inv_cnt' = to_affine_inversions(P)
    /\ UNCHANGED <<P, Q, R, status, DEBUG, add_ec_point_count, codecVars, vec0, vec, cmpVars, threadVars>>

NextAlg == Add \/ AddNeg \/ MixedAdd \/ ToAffine \/ ToSpecial

SpecAlg == InitAlg /\ [][NextAlg]_vars

(***************************************************************************)
(* Associativity calls: three free operands.                               *)
(***************************************************************************)
InitAssoc ==
    /\ pc = "start"
    /\ P \in Operands
    /\ Q \in Operands
    /\ R \in Operands
    /\ ret = G1_zero
    /\ status = "ok"
    /\ DEBUG = FALSE
    /\ add_ec_point_count = 0
    /\ CmpIdle
    /\ ThreadsIdle
    /\ CodecIdle
    /\ BatchIdle

\* ret = (P + Q) + R
AddAssoc ==
    /\ pc = "start"
    /\ pc' = "add_assoc"
    /\ ret' = add(add(P, Q), R)
    /\ add_ec_point_count' = add_ec_point_count + 2
    /\ inv_cnt' = 0
    /\ UNCHANGED <<P, Q, R, status, DEBUG, codecVars, vec0, vec, cmpVars, threadVars>>

NextAssoc == AddAssoc

SpecAssoc == InitAssoc /\ [][NextAssoc]_vars

(***************************************************************************)
(* The points reachable from the generator: P and Q are two variables of   *)
(* a caller, which applies the operations to them in any order.            *)
(***************************************************************************)
Init ==
    /\ pc = "start"
    /\ P = G1_one
    /\ Q = G1_zero
    /\ R = G1_zero
    /\ ret = G1_zero
    /\ status = "ok"
    /\ DEBUG = FALSE
    /\ add_ec_point_count = 0
    /\ CmpIdle
    /\ ThreadsIdle
    /\ CodecIdle
    /\ BatchIdle

\* P = P + Q
StepAdd ==
    /\ add_ec_point_count < MaxAddCount
    /\ pc' = "add"
    /\ P' = add(P, Q)
    /\ add_ec_point_count' = add_ec_point_count + 1
    /\ inv_cnt' = 0
    /\ UNCHANGED <<Q, R, ret, status, DEBUG, codecVars, vec0, vec, cmpVars, threadVars>>

\* P = P.dbl()
StepDbl ==
    /\ pc' = "dbl"
    /\ P' = dbl(P)
    /\ inv_cnt' = 0
    /\ UNCHANGED <<Q, R, ret, status, DEBUG, add_ec_point_count, codecVars, vec0, vec, cmpVars, threadVars>>

\* P = -P
StepNeg ==
    /\ pc' = "neg"
    /\ P' = neg(P)
    /\ inv_cnt' = 0
    /\ UNCHANGED <<Q, R, ret, status, DEBUG, add_ec_point_count, codecVars, vec0, vec, cmpVars, threadVars>>

\* P = P.mixed_add(Q), called as its precondition asks
StepMixedAdd ==
    /\ is_special(Q)
    /\ pc' = "mixed_add"
    /\ P' = mixed_add(P, Q)
    /\ inv_cnt' = 0
    /\ UNCHANGED <<Q, R, ret, status, DEBUG, add_ec_point_count, codecVars, vec0, vec, cmpVars, threadVars>>

\* P.to_affine_coordinates()
StepToAffine ==
    /\ pc' = "to_affine_coordinates"
    /\ P' = to_affine_coordinates(P)
    /\ inv_cnt' = to_affine_inversions(P)
    /\ UNCHANGED <<Q, R, ret, status, DEBUG, add_ec_point_count, codecVars, vec0, vec, cmpVars, threadVars>>

\* Q = P
StepCopy ==
    /\ pc' = "copy"
    /\ Q' = P
    /\ inv_cnt' = 0
    /\ UNCHANGED <<P, R, ret, status, DEBUG, add_ec_point_count, codecVars, vec0, vec, cmpVars, threadVars>>

\* std::swap(P, Q)
StepSwap ==
    /\ pc' = "swap"
    /\ P' = Q
    /\ Q' = P
    /\ inv_cnt' = 0
    /\ UNCHANGED <<R, ret, status, DEBUG, add_ec_point_count, codecVars, vec0, vec, cmpVars, threadVars>>

Next ==
    \/ StepAdd
    \/ StepDbl
    \/ StepNeg
    \/ StepMixedAdd
    \/ StepToAffine
    \/ StepCopy
    \/ StepSwap

Spec == Init /\ [][Next]_vars

(***************************************************************************)
(* Text serialization: a stream is a sequence of characters.               *)
(***************************************************************************)
OUTPUT_SEPARATOR == <<" ">>

DigitChars == <<"0", "1", "2", "3", "4", "5", "6", "7", "8", "9">>

\* c - '0' for a digit character c
DigitValue(c) == CHOOSE d \in 0 .. 9 : DigitChars[d + 1] = c

RECURSIVE Decimal(_)
\* the decimal digits of n, most significant first, no leading zeros
Decimal(n) ==
    IF n < 10 THEN <<DigitChars[n + 1]>>
    ELSE Decimal(n \div 10) \o <<DigitChars[(n % 10) + 1]>>

\* operator<< of a field element: the decimal text of as_bigint()
Fq_write(a) == Decimal(a)

RECURSIVE SkipWs(_)
\* the stream after its leading white space
SkipWs(s) ==
    IF s # <<>> /\ Head(s) = " " THEN SkipWs(Tail(s)) ELSE s

RECURSIVE TokenLen(_)
\* the number of characters before the first white space
TokenLen(s) ==
    IF s = <<>> \/ Head(s) = " " THEN 0 ELSE 1 + TokenLen(Tail(s))

RECURSIVE DecimalValue(_, _)
\* the number whose decimal text is tok, read after the digits of value acc
DecimalValue(tok, acc) ==
    IF tok = <<>> THEN acc
    ELSE DecimalValue(Tail(tok), 10 * acc + DigitValue(Head(tok)))

\* operator>> of a field element: skips white space, takes the characters up
\* to the next white space as a decimal number; val is the element read and
\* rest the stream after it
Fq_read(s) ==
    LET t == SkipWs(s)
        n == TokenLen(t)
    IN  [val  |-> DecimalValue(SubSeq(t, 1, n), 0) % modulus,
         rest |-> SubSeq(t, n + 1, Len(t))]

\* consume_OUTPUT_SEPARATOR: reads one character
consume_OUTPUT_SEPARATOR(s) == Tail(s)

write_uncompressed(p) ==
    LET copy == p
    IN  Fq_write(copy.X) \o OUTPUT_SEPARATOR
           \o Fq_write(copy.Y) \o OUTPUT_SEPARATOR
           \o Fq_write(copy.Z) \o OUTPUT_SEPARATOR

\* write_compressed storing the flag of the point as it was given
write_compressed_no_affine(p) ==
    LET copy == p
    IN  Decimal(IF is_zero(copy) THEN 1 ELSE 0) \o OUTPUT_SEPARATOR
           \o Fq_write(copy.X) \o OUTPUT_SEPARATOR
           \o Decimal(Lsb(copy.Y))

write_compressed(p) ==
    LET copy == to_affine_coordinates(p)
    IN  Decimal(IF is_zero(copy) THEN 1 ELSE 0) \o OUTPUT_SEPARATOR
           \o Fq_write(copy.X) \o OUTPUT_SEPARATOR
           \o Decimal(Lsb(copy.Y))

\* read_uncompressed: in >> is_zero >> tX >> tY, then the point; rest is the
\* stream it leaves
read_uncompressed(s) ==
    LET s1 == SkipWs(s)
        is_zero_flag == DigitValue(Head(s1))
        rX == Fq_read(Tail(s1))
        rY == Fq_read(rX.rest)
    IN  [g    |-> IF is_zero_flag = 0
                  THEN G1(rX.val, rY.val, Fq_one)
                  ELSE G1_zero,
         rest |-> rY.rest]

\* what read_compressed reads before it computes y: the flag, x and the
\* stored parity of y
read_compressed_fields(s) ==
    LET is_zero_flag == DigitValue(Head(s))
        s1 == consume_OUTPUT_SEPARATOR(Tail(s))
        rX == Fq_read(s1)
        s2 == consume_OUTPUT_SEPARATOR(rX.rest)
    IN  [is_zero |-> is_zero_flag,
         tX      |-> rX.val,
         Y_lsb   |-> DigitValue(Head(s2)),
         rest    |-> Tail(s2)]

\* x^3 + b, the operand read_compressed hands to sqrt
read_compressed_tY2(tX) ==
    Fq_add(Fq_mul(squared(tX), tX), bls12_381_coeff_b)

\* read_compressed keeping the root whose parity differs from the stored one
read_compressed_point_wrong_parity(f, root) ==
    IF f.is_zero = 0
    THEN LET tY == IF Lsb(root) = f.Y_lsb THEN Fq_neg(root) ELSE root
         IN  G1(f.tX, tY, Fq_one)
    ELSE G1_zero

\* the point read_compressed builds from the fields f, root being what sqrt
\* returned
read_compressed_point(f, root) ==
    IF f.is_zero = 0
    THEN LET tY == IF Lsb(root) # f.Y_lsb THEN Fq_neg(root) ELSE root
         IN  G1(f.tX, tY, Fq_one)
    ELSE G1_zero

\* every representative of every curve point, and the two of Infinity
AllPoints ==
    {Scale(a, c) : a \in AffinePoints, c \in 1 .. (modulus - 1)} \cup Infinities

InitCodec ==
    /\ pc = "start"
    /\ P \in AllPoints
    /\ Q = G1_zero
    /\ R = G1_zero
    /\ ret = G1_zero
    /\ status = "ok"
    /\ DEBUG = FALSE
    /\ add_ec_point_count = 0
    /\ CmpIdle
    /\ ThreadsIdle
    /\ CodecIdle
    /\ BatchIdle

\* P.write_compressed(out)
WriteCompressed ==
    /\ pc = "start"
    /\ pc' = "written"
    /\ stream' = write_compressed(P)
    /\ src' = "write_compressed"
    /\ inv_cnt' = to_affine_inversions(P)
    /\ UNCHANGED <<status, groupVars, g, sqrt_iter, vec0, vec, cmpVars, threadVars>>

\* P.write_uncompressed(out)
WriteUncompressed ==
    /\ pc = "start"
    /\ pc' = "written"
    /\ stream' = write_uncompressed(P)
    /\ src' = "write_uncompressed"
    /\ inv_cnt' = 0
    /\ UNCHANGED <<status, groupVars, g, sqrt_iter, vec0, vec, cmpVars, threadVars>>

\* read_compressed(in, g): returns when the flag says Infinity or sqrt
\* returns a root (either root: the caller fixes the sign); on a
\* non-residue control stays in sqrt's loop
ReadCompressed ==
    /\ pc = "written"
    /\ src \in {"write_compressed", "peer"}
    /\ LET f == read_compressed_fields(stream)
           tY2 == read_compressed_tY2(f.tX)
       IN  IF f.is_zero # 0
           THEN /\ g' = read_compressed_point(f, Fq_zero)
                /\ stream' = f.rest
                /\ pc' = "read_compressed"
           ELSE IF Roots(tY2) # {}
           THEN /\ \E root \in Roots(tY2) : g' = read_compressed_point(f, root)
                /\ stream' = f.rest
                /\ pc' = "read_compressed"
           ELSE /\ pc' = "sqrt"
                /\ stream' = f.rest
                /\ UNCHANGED g
    /\ inv_cnt' = 0
    /\ UNCHANGED <<status, groupVars, src, sqrt_iter, vec0, vec, cmpVars, threadVars>>

\* one more iteration of the loop of sqrt on a non-residue
SqrtLoop ==
    /\ pc = "sqrt"
    /\ sqrt_iter' = 1 - sqrt_iter
    /\ UNCHANGED <<pc, status, groupVars, stream, src, g, batchVars, cmpVars, threadVars>>

\* read_uncompressed(in, g)
ReadUncompressed ==
    /\ pc = "written"
    /\ src = "write_uncompressed"
    /\ LET r == read_uncompressed(stream)
       IN  /\ g' = r.g
           /\ stream' = r.rest
    /\ pc' = "read_uncompressed"
    /\ inv_cnt' = 0
    /\ UNCHANGED <<status, groupVars, src, sqrt_iter, vec0, vec, cmpVars, threadVars>>

NextCodec ==
    \/ WriteCompressed
    \/ WriteUncompressed
    \/ ReadCompressed
    \/ ReadUncompressed

SpecCodec == InitCodec /\ [][NextCodec]_vars

(***************************************************************************)
(* read_compressed on an encoding that arrives from elsewhere: any flag,   *)
(* any x, any parity bit; g holds what the caller left in it.              *)
(***************************************************************************)
PeerEncodings ==
    {Decimal(flag) \o OUTPUT_SEPARATOR \o Fq_write(x) \o OUTPUT_SEPARATOR \o Decimal(lsb) :
        flag \in 0 .. 1, x \in Fq, lsb \in 0 .. 1}

InitRead ==
    /\ pc = "written"
    /\ P = G1_zero
    /\ Q = G1_zero
    /\ R = G1_zero
    /\ ret = G1_zero
    /\ status = "ok"
    /\ DEBUG = FALSE
    /\ add_ec_point_count = 0
    /\ CmpIdle
    /\ ThreadsIdle
    /\ stream \in PeerEncodings
    /\ src = "peer"
    /\ g \in {G1_zero, G1_one}
    /\ sqrt_iter = 0
    /\ BatchIdle

NextRead == ReadCompressed \/ SqrtLoop

\* the program is one thread that keeps running: a step that can be taken
\* is taken
SpecRead == InitRead /\ [][NextRead]_vars /\ WF_vars(NextRead)

(***************************************************************************)
(* Batch normalisation.                                                    *)
(***************************************************************************)
RECURSIVE Product(_)
\* the product of the elements of a sequence of field elements
Product(zs) ==
    IF zs = <<>> THEN Fq_one ELSE Fq_mul(Head(zs), Product(Tail(zs)))

\* batch_invert (Montgomery's trick): prod[i] is the product of the
\* elements before i, acc the product of all; acc is inverted once, and the
\* walk backward gives element i the value acc_inverse * prod[i], then
\* multiplies acc_inverse by the old element i. acc_inv is what that one
\* inversion returned.
batch_invert(zs, acc_inv) ==
    [i \in 1 .. Len(zs) |->
        Fq_mul(Fq_mul(acc_inv, Product(SubSeq(zs, i + 1, Len(zs)))),
               Product(SubSeq(zs, 1, i - 1)))]

\* the values the one inversion of batch_invert can return: the inverse of
\* the product, and anything when the product is zero (undefined behaviour)
batch_invert_inversions(zs) ==
    IF Product(zs) # Fq_zero THEN {inverse(Product(zs))} ELSE Fq

\* batch_to_special_all_non_zeros scaling Y by Z^-2 as it does X
batch_to_special_Y_by_Z2(v, acc_inv) ==
    LET Z_vec == batch_invert([i \in 1 .. Len(v) |-> v[i].Z], acc_inv)
    IN  [i \in 1 .. Len(v) |->
            LET Z2 == squared(Z_vec[i])
            IN  G1(Fq_mul(v[i].X, Z2), Fq_mul(v[i].Y, Z2), Fq_one)]

\* batch_to_special_all_non_zeros: the vector it leaves
batch_to_special_all_non_zeros(v, acc_inv) ==
    LET Z_vec == batch_invert([i \in 1 .. Len(v) |-> v[i].Z], acc_inv)
    IN  [i \in 1 .. Len(v) |->
            LET Z2 == squared(Z_vec[i])
                Z3 == Fq_mul(Z_vec[i], Z2)
            IN  G1(Fq_mul(v[i].X, Z2), Fq_mul(v[i].Y, Z3), Fq_one)]

\* elements of the vectors: every representative of the generator and of
\* its double, and Infinity
BatchPoints ==
    {Scale(a, c) : a \in {G1_one, to_affine_coordinates(dbl(G1_one))},
                   c \in 1 .. (modulus - 1)} \cup {G1_zero}

InitBatch ==
    /\ pc = "start"
    /\ P = G1_zero
    /\ Q = G1_zero
    /\ R = G1_zero
    /\ ret = G1_zero
    /\ status = "ok"
    /\ DEBUG = FALSE
    /\ add_ec_point_count = 0
    /\ CmpIdle
    /\ ThreadsIdle
    /\ CodecIdle
    /\ vec0 \in UNION {[1 .. n -> BatchPoints] : n \in 0 .. MaxVec}
    /\ vec = vec0
    /\ inv_cnt = 0

\* bls12_381_G1::batch_to_special_all_non_zeros(vec)
BatchToSpecial ==
    /\ pc = "start"
    /\ pc' = "batch_to_special"
    /\ \E acc_inv \in batch_invert_inversions([i \in 1 .. Len(vec) |-> vec[i].Z]) :
          vec' = batch_to_special_all_non_zeros(vec, acc_inv)
    /\ inv_cnt' = inv_cnt + 1
    /\ UNCHANGED <<status, groupVars, codecVars, vec0, cmpVars, threadVars>>

NextBatch == BatchToSpecial

SpecBatch == InitBatch /\ [][NextBatch]_vars

(***************************************************************************)
(* Threads calling operator+ after initialization: each adds G1_one to a   *)
(* sum of its own. _add_ec_point_count++ is a load and a store of the      *)
(* static, with no lock and no atomic; the rest of operator+ reads its     *)
(* operands only.                                                          *)
(***************************************************************************)
Threads == 1 .. NumThreads

InitThreads ==
    /\ pc = "start"
    /\ P = G1_zero
    /\ Q = G1_zero
    /\ R = G1_zero
    /\ ret = G1_zero
    /\ status = "ok"
    /\ DEBUG = FALSE
    /\ add_ec_point_count = 0
    /\ CodecIdle
    /\ BatchIdle
    /\ CmpIdle
    /\ tpc = [t \in Threads |-> "idle"]
    /\ treg = [t \in Threads |-> 0]
    /\ tcalls = [t \in Threads |-> 0]
    /\ tret = [t \in Threads |-> G1_zero]

\* thread t enters operator+ and loads _add_ec_point_count
ThreadLoad(t) ==
    /\ tpc[t] = "idle"
    /\ tcalls[t] < MaxAddCount
    /\ tpc' = [tpc EXCEPT ![t] = "loaded"]
    /\ treg' = [treg EXCEPT ![t] = add_ec_point_count]
    /\ UNCHANGED <<pc, status, groupVars, codecVars, batchVars, cmpVars, tcalls, tret>>

\* thread t stores the incremented value
ThreadStore(t) ==
    /\ tpc[t] = "loaded"
    /\ tpc' = [tpc EXCEPT ![t] = "stored"]
    /\ add_ec_point_count' = treg[t] + 1
    /\ UNCHANGED <<pc, status, P, Q, R, ret, DEBUG, codecVars, batchVars, cmpVars,
                   treg, tcalls, tret>>

\* thread t computes the sum from its operands and returns it
ThreadReturn(t) ==
    /\ tpc[t] = "stored"
    /\ tpc' = [tpc EXCEPT ![t] = "idle"]
    /\ tret' = [tret EXCEPT ![t] = add(tret[t], G1_one)]
    /\ tcalls' = [tcalls EXCEPT ![t] = tcalls[t] + 1]
    /\ UNCHANGED <<pc, status, groupVars, codecVars, batchVars, cmpVars, treg>>

NextThreads ==
    \E t \in Threads : ThreadLoad(t) \/ ThreadStore(t) \/ ThreadReturn(t)

SpecThreads == InitThreads /\ [][NextThreads]_vars

(***************************************************************************)
(* Comparisons: two free operands, compared with each other, with every    *)
(* operand, and P with each of its other representatives.                  *)
(***************************************************************************)
InitEq ==
    /\ pc = "start"
    /\ P \in Operands
    /\ Q \in Operands
    /\ R = G1_zero
    /\ ret = G1_zero
    /\ status = "ok"
    /\ DEBUG = FALSE
    /\ add_ec_point_count = 0
    /\ CmpIdle
    /\ ThreadsIdle
    /\ CodecIdle
    /\ BatchIdle

\* the nonzero field elements
Fq_nonzero == Fq \ {Fq_zero}

\* eq holds the values returned by P == P, P == Q, Q == P and P != Q, the
\* operands r for which Q == r and for which P == r returned true, and the
\* c for which P == (c^2 X, c^3 Y, c Z) returned true
Equals ==
    /\ pc = "start"
    /\ pc' = "equals"
    /\ eq' = [PP |-> Eq(P, P),
              PQ |-> Eq(P, Q),
              QP |-> Eq(Q, P),
              NE |-> Neq(P, Q),
              QR |-> {r \in Operands : Eq(Q, r)},
              PR |-> {r \in Operands : Eq(P, r)},
              scaled |-> {c \in Fq_nonzero : Eq(P, Scale(P, c))}]
    /\ inv_cnt' = 0
    /\ UNCHANGED <<P, Q, R, ret, status, DEBUG, add_ec_point_count,
                   codecVars, vec0, vec, threadVars>>

NextEq == Equals

SpecEq == InitEq /\ [][NextEq]_vars

(***************************************************************************)
(* Claims.                                                                 *)
(***************************************************************************)
\* C1: addition is associative on logical points: for well-formed P, Q, R
\* (any representative, Infinity included) (P + Q) + R == P + (Q + R).
C1_Associative ==
    pc = "add_assoc" => Eq(ret, add(P, add(Q, R)))

\* three finite operands, P not normalized, Q and R two different
\* representatives of one point (Q + R doubles), and a finite sum
C1_Witness ==
    /\ pc = "add_assoc"
    /\ ~ is_zero(P) /\ ~ is_zero(Q) /\ ~ is_zero(R)
    /\ P.Z # Fq_one
    /\ Q # R /\ Eq(Q, R)
    /\ ~ is_zero(ret)

\* C2: for every well-formed P, P + (-P) is the point at infinity.
C2_AddNegIsZero ==
    pc = "add_neg" => is_zero(ret)

\* a finite, not normalized P whose sum with -P has been computed
C2_Witness ==
    /\ pc = "add_neg"
    /\ ~ is_zero(P)
    /\ P.Z # Fq_one
    /\ is_zero(ret)

\* C3: for well-formed P and affine-normalized well-formed Q,
\* mixed_add(P, Q) == add(P, Q).
C3_MixedAddIsAdd ==
    (pc = "mixed_add" /\ is_special(Q)) => (status = "ok" /\ Eq(ret, add(P, Q)))

\* a not normalized finite P and a different normalized finite Q, so that
\* the mixed formula itself is evaluated, with a finite sum
C3_Witness ==
    /\ pc = "mixed_add"
    /\ ~ is_zero(P) /\ P.Z # Fq_one
    /\ ~ is_zero(Q) /\ Q.Z = Fq_one
    /\ ~ Eq(P, Q)
    /\ ~ is_zero(ret)

\* C4: every point produced from the generator and Infinity by add, dbl,
\* negation, mixed_add with a normalized right operand and
\* to_affine_coordinates satisfies is_well_formed.
C4_WellFormedReachable ==
    is_well_formed(P) /\ is_well_formed(Q)

\* two different finite points, neither normalized, after MaxAddCount
\* additions
C4_Witness ==
    /\ add_ec_point_count = MaxAddCount
    /\ ~ is_special(P) /\ ~ is_special(Q)
    /\ ~ Eq(P, Q)
    /\ ~ Eq(P, G1_one)

\* C5: compressed round trip: read_compressed on the output of
\* write_compressed(P) returns, and yields g with g == P; when P is finite,
\* g has Z = 1 and the affine x and y of P.
C5_CompressedRoundTrip ==
    (src = "write_compressed" /\ pc # "written") =>
        /\ pc = "read_compressed"
        /\ Eq(g, P)
        /\ ~ is_zero(P) =>
              /\ g.Z = Fq_one
              /\ g.X = to_affine_coordinates(P).X
              /\ g.Y = to_affine_coordinates(P).Y

\* a finite, not normalized P with odd affine y has made the round trip
C5_Witness ==
    /\ src = "write_compressed"
    /\ pc = "read_compressed"
    /\ ~ is_special(P)
    /\ Lsb(to_affine_coordinates(P).Y) = 1
    /\ g # P

\* C6: uncompressed round trip: read_uncompressed on the output of
\* write_uncompressed(P) yields a point logically equal to P.
C6_UncompressedRoundTrip ==
    pc = "read_uncompressed" => Eq(g, P)

\* C7: on a compressed input with zero-flag 0 whose x makes x^3 + b a
\* non-residue, read_compressed terminates and reports malformed input.
C7_NonResidueRejected ==
    (pc = "sqrt") ~> (pc = "read_compressed" /\ status = "malformed_input")

\* C8: on a sequence of finite points batch_to_special_all_non_zeros leaves
\* each element with Z = 1 and the X and Y that to_affine_coordinates gives
\* on that element alone, and makes exactly one field inversion.
C8_BatchIsToAffine ==
    (pc = "batch_to_special" /\ \A i \in 1 .. Len(vec0) : ~ is_zero(vec0[i])) =>
        /\ Len(vec) = Len(vec0)
        /\ \A i \in 1 .. Len(vec0) : vec[i] = to_affine_coordinates(vec0[i])
        /\ inv_cnt = 1

\* a batch of MaxVec finite points, none normalized, with different Z
C8_Witness ==
    /\ pc = "batch_to_special"
    /\ Len(vec0) = MaxVec
    /\ \A i \in 1 .. Len(vec0) : ~ is_special(vec0[i])
    /\ \A i, j \in 1 .. Len(vec0) : i # j => vec0[i].Z # vec0[j].Z
    /\ vec # vec0

\* C9: when an element of the sequence is Infinity,
\* batch_to_special_all_non_zeros reports a failure instead of returning.
C9_BatchRejectsInfinity ==
    (pc = "batch_to_special" /\ \E i \in 1 .. Len(vec0) : is_zero(vec0[i])) =>
        status # "ok"

\* C10: mixed_add with a right operand that is neither Infinity nor has
\* Z = 1 surfaces a failure to the caller instead of returning a point.
C10_MixedAddChecksOperand ==
    (pc = "mixed_add" /\ ~ is_special(Q)) => status # "ok"

\* C11 (as stated): to_affine_coordinates and to_special leave a point
\* logically equal to P that satisfies is_special, with exactly one field
\* inversion, for any P.
C11_ToAffineOneInversion ==
    pc \in {"to_affine_coordinates", "to_special"} =>
        /\ Eq(ret, P)
        /\ is_special(ret)
        /\ inv_cnt = 1

\* C11 (amended): to_affine_coordinates and to_special leave a point
\* logically equal to P that satisfies is_special; they make exactly one
\* field inversion when P is finite and none when P is Infinity (which
\* becomes the canonical (0, 1, 0)).
C11_ToAffineNormalizes ==
    pc \in {"to_affine_coordinates", "to_special"} =>
        /\ Eq(ret, P)
        /\ is_special(ret)
        /\ ~ is_zero(P) => (ret.Z = Fq_one /\ inv_cnt = 1)
        /\ is_zero(P) => (ret = G1_zero /\ inv_cnt = 0)

\* a finite, not normalized P has been normalized
C11_Witness ==
    /\ pc = "to_affine_coordinates"
    /\ ~ is_special(P)
    /\ ret # P
    /\ inv_cnt = 1

\* C12: after initialization the point operations write no state shared
\* between callers: no two threads are at a write of a shared variable at
\* the same time, and no call modifies a static.
C12_NoSharedWrite ==
    /\ add_ec_point_count = 0
    /\ \A t1, t2 \in DOMAIN tpc :
          t1 # t2 => ~ (tpc[t1] = "loaded" /\ tpc[t2] = "loaded")

\* C13: for finite well-formed P, Q with P == Q (any Z scaling) operator+
\* returns dbl(P), not the value of the general formula; dbl(P) == P + P
\* for every P; and operator+ returns a point with Z = 0 only when the sum
\* is Infinity (both operands are Infinity, or they are finite with the same
\* affine x and opposite affine y).
C13_DoublingDispatch ==
    pc = "add" =>
        /\ (~ is_zero(P) /\ ~ is_zero(Q) /\ Eq(P, Q)) =>
              (ret = dbl(P) /\ ret # add_general(P, Q))
        /\ Eq(dbl(P), add(P, P))
        /\ is_zero(ret) =>
              \/ is_zero(P) /\ is_zero(Q)
              \/ /\ ~ is_zero(P)
                 /\ ~ is_zero(Q)
                 /\ to_affine_coordinates(P).X = to_affine_coordinates(Q).X
                 /\ to_affine_coordinates(P).Y =
                        Fq_neg(to_affine_coordinates(Q).Y)

\* P and Q are two different representatives of one finite point and the
\* sum returned is finite
C13_Witness ==
    /\ pc = "add"
    /\ ~ is_zero(P) /\ ~ is_zero(Q)
    /\ Eq(P, Q) /\ P # Q
    /\ ~ is_zero(ret)

\* C14: operator== decides equality of the logical points whatever the
\* representatives: Infinity equals exactly the points with Z = 0; finite
\* P, Q are equal iff X1/Z1^2 = X2/Z2^2 and Y1/Z1^3 = Y2/Z2^3; P equals
\* (c^2 X, c^3 Y, c Z) for every nonzero c; == is reflexive, symmetric and
\* transitive, and != is its negation.
C14_EqDecidesLogicalPoint ==
    pc = "equals" =>
        /\ is_zero(P) => (eq.PQ <=> Q.Z = Fq_zero)
        /\ is_zero(Q) => (eq.PQ <=> P.Z = Fq_zero)
        /\ (~ is_zero(P) /\ ~ is_zero(Q)) =>
              (eq.PQ <=>
                 /\ Fq_mul(P.X, squared(inverse(P.Z))) =
                        Fq_mul(Q.X, squared(inverse(Q.Z)))
                 /\ Fq_mul(P.Y, Fq_mul(inverse(P.Z), squared(inverse(P.Z)))) =
                        Fq_mul(Q.Y, Fq_mul(inverse(Q.Z), squared(inverse(Q.Z)))))
        /\ eq.scaled = Fq_nonzero
        /\ eq.PP
        /\ eq.PQ <=> eq.QP
        /\ eq.PQ => eq.QR \subseteq eq.PR
        /\ eq.NE <=> ~ eq.PQ

\* two different representatives of one finite point compared equal, and
\* Q compared equal to an operand other than itself
C14_Witness ==
    /\ pc = "equals"
    /\ ~ is_zero(P) /\ ~ is_zero(Q)
    /\ P # Q
    /\ eq.PQ
    /\ eq.QR \ {Q} # {}
    /\ Cardinality(eq.scaled) > 1

====
